---------------------------- MODULE Spec2Model ----------------------------
(***************************************************************************)
(* A model of triton-rs: the byte-tensor string codec (lib.rs), the entry  *)
(* point shim generated by declare_backend (backend.rs), the model state   *)
(* attachment of Model (model.rs), the buffer access of Input              *)
(* (request.rs), the lifecycle of a model with attached state (backend.rs  *)
(* with model.rs) and the terminal calls of Response (response.rs).  Each  *)
(* part has its own specification over its own variables; the variables of *)
(* the other parts stay at their idle values.                              *)
(***************************************************************************)
EXTENDS Integers, Sequences, FiniteSets, TLC

VARIABLES
    \* ---- codec (lib.rs) ----
    strings,     \* the strings handed to encode_string, in order
    encIdx,      \* how many of them the caller has encoded so far
    wire,        \* the byte buffer: the concatenated encode_string outputs
    cut,         \* TRUE once the buffer was cut short before decoding
    decodeRes,   \* outcome of decode_string(wire), or NoResult
    \* ---- entry point shim (backend.rs) ----
    errors,      \* native error objects the host allocated, by handle 1..n
    hookLog,     \* plugin hooks invoked so far, in order
    shimRet,     \* what the last entry point call did and returned
    lastArgs,    \* the request handle array the host passed to that call
    \* ---- model state attachment (model.rs) ----
    heap,        \* boxed state objects by address 1..n
    slot,        \* the native model's state pointer (NULL or an address)
    held,        \* boxes handed back to the caller by drop_data, not yet dropped
    crashed,     \* the process died (undefined behaviour took the fatal outcome)
    lastSet,     \* history: what the last successful set_data attached
                 \* ("set"), then that a drop_data handed it back ("dropped"),
                 \* until the next set_data or a further drop_data
    lastOp,      \* what the last Model operation did and returned
    \* ---- input buffer access (request.rs) ----
    input,       \* the native input: its regions and declared properties
    nativeCalls, \* native calls made by the last Input.buffer(), in order
    bufRes,      \* outcome of the last Input.buffer(), or NoResult
    \* ---- model lifecycle (backend.rs with model.rs) ----
    phase,       \* "loaded", "initialized" or "finalized"
    threads,     \* per model instance: where its execute call stands
    \* ---- responses (response.rs) ----
    responses,   \* every Response created, with the native calls on its handle
    lastResp     \* what the last Response operation did and returned

codecVars == <<strings, encIdx, wire, cut, decodeRes>>
shimVars  == <<errors, hookLog, shimRet, lastArgs>>
stateVars == <<heap, slot, held, crashed, lastSet, lastOp>>
inputVars == <<input, nativeCalls, bufRes>>
lifeVars  == <<phase, threads>>
respVars  == <<responses, lastResp>>
vars == <<strings, encIdx, wire, cut, decodeRes, errors, hookLog, shimRet, lastArgs,
          heap, slot, held, crashed, lastSet, lastOp, input, nativeCalls, bufRes,
          phase, threads, responses, lastResp>>

NULL == 0
NoResult == [status |-> "none"]

-----------------------------------------------------------------------------
(* Bounds *)

MaxStrChars == 2     \* characters per generated string
MaxStrings == 2      \* strings per generated sequence

-----------------------------------------------------------------------------
(* Byte-tensor codec: lib.rs *)

\* A Rust String / &str is modelled by its UTF-8 bytes.  The characters the
\* generated strings are made of: 'a', U+00E9 and U+20AC.
Chars == { <<97>>, <<195, 169>>, <<226, 130, 172>> }

RECURSIVE Flatten(_)
Flatten(ss) == IF ss = <<>> THEN <<>> ELSE Head(ss) \o Flatten(Tail(ss))

RECURSIVE CharSeqs(_)
CharSeqs(n) == IF n = 0 THEN { <<>> }
               ELSE CharSeqs(n - 1) \cup
                    { Append(s, c) : s \in CharSeqs(n - 1), c \in Chars }

\* the UTF-8 strings of at most MaxStrChars characters
Utf8Strings == { Flatten(cs) : cs \in CharSeqs(MaxStrChars) }

RECURSIVE StringSeqs(_)
StringSeqs(n) == IF n = 0 THEN { <<>> }
                 ELSE StringSeqs(n - 1) \cup
                      { Append(q, s) : q \in StringSeqs(n - 1), s \in Utf8Strings }

\* "cat", "dogs"
Scenario == << <<99, 97, 116>>, <<100, 111, 103, 115>> >>
ScenarioBytes == <<3, 0, 0, 0, 99, 97, 116, 4, 0, 0, 0, 100, 111, 103, 115>>

Inputs == StringSeqs(MaxStrings) \cup { Scenario }

\* (value.len() as u32): usize narrowed to its low 32 bits
as_u32(n) == (n % 65536) + 65536 * ((n \div 65536) % 65536)

\* the length prefix written most significant byte first
to_be_bytes(n) == << (n \div 16777216) % 256, (n \div 65536) % 256,
                     (n \div 256) % 256, n % 256 >>

\* u32::to_le_bytes
to_le_bytes(n) == << n % 256, (n \div 256) % 256,
                     (n \div 65536) % 256, (n \div 16777216) % 256 >>

\* the length prefix read most significant byte first
from_be_bytes(b0, b1, b2, b3) == b3 + 256 * b2 + 65536 * b1 + 16777216 * b0

\* u32::from_le_bytes([b0, b1, b2, b3])
from_le_bytes(b0, b1, b2, b3) == b0 + 256 * b1 + 65536 * b2 + 16777216 * b3

\* pub fn encode_string(value: &str) -> Vec<u8>
encode_string(value) == to_le_bytes(as_u32(Len(value))) \o value

\* String::from_utf8_lossy: valid sequences are kept, every maximal invalid
\* prefix of a sequence is replaced by U+FFFD (EF BF BD).
Replacement == <<239, 191, 189>>
IsCont(b) == b >= 128 /\ b <= 191
LeadWidth(b) == IF b < 128 THEN 1
                ELSE IF b >= 194 /\ b <= 223 THEN 2
                ELSE IF b >= 224 /\ b <= 239 THEN 3
                ELSE IF b >= 240 /\ b <= 244 THEN 4
                ELSE 0
SecondOk(b0, b1) == IF b0 = 224 THEN b1 >= 160 /\ b1 <= 191
                    ELSE IF b0 = 237 THEN b1 >= 128 /\ b1 <= 159
                    ELSE IF b0 = 240 THEN b1 >= 144 /\ b1 <= 191
                    ELSE IF b0 = 244 THEN b1 >= 128 /\ b1 <= 143
                    ELSE IsCont(b1)
\* the first chunk of b: [ok, n] = n bytes that are one valid character, or
\* n bytes to replace
FirstChunk(b) ==
    LET w == LeadWidth(b[1]) IN
    IF w = 0 THEN [ok |-> FALSE, n |-> 1]
    ELSE IF w = 1 THEN [ok |-> TRUE, n |-> 1]
    ELSE IF Len(b) < 2 \/ ~SecondOk(b[1], b[2]) THEN [ok |-> FALSE, n |-> 1]
    ELSE IF w = 2 THEN [ok |-> TRUE, n |-> 2]
    ELSE IF Len(b) < 3 \/ ~IsCont(b[3]) THEN [ok |-> FALSE, n |-> 2]
    ELSE IF w = 3 THEN [ok |-> TRUE, n |-> 3]
    ELSE IF Len(b) < 4 \/ ~IsCont(b[4]) THEN [ok |-> FALSE, n |-> 3]
    ELSE [ok |-> TRUE, n |-> 4]

RECURSIVE from_utf8_lossy(_)
from_utf8_lossy(b) ==
    IF b = <<>> THEN <<>>
    ELSE LET c == FirstChunk(b) IN
         (IF c.ok THEN SubSeq(b, 1, c.n) ELSE Replacement)
         \o from_utf8_lossy(SubSeq(b, c.n + 1, Len(b)))

\* The loop of decode_string from offset i (0-based) with the strings decoded
\* so far.  data[i + k] and &data[i..i + wide] are bounds-checked: an index or
\* a range past the end panics.
RECURSIVE decode_loop(_, _, _)
decode_loop(data, i, acc) ==
    IF ~(i < Len(data)) THEN [status |-> "Ok", strings |-> acc]
    ELSE IF i + 3 >= Len(data)
         THEN [status |-> "panic", what |-> "index out of bounds"]
    ELSE LET wide == from_le_bytes(data[i + 1], data[i + 2], data[i + 3], data[i + 4])
             j == i + 4
         IN IF j + wide > Len(data)
            THEN [status |-> "panic", what |-> "range end index out of range"]
            ELSE decode_loop(data, j + wide,
                     Append(acc, from_utf8_lossy(SubSeq(data, j + 1, j + wide))))

\* pub fn decode_string(data: &[u8]) -> Result<Vec<String>, Error>
decode_string(data) == decode_loop(data, 0, <<>>)

IdleCodec == /\ strings = <<>>
             /\ encIdx = 0
             /\ wire = <<>>
             /\ cut = FALSE
             /\ decodeRes = NoResult

InitCodec == /\ strings \in Inputs
             /\ encIdx = 0
             /\ wire = <<>>
             /\ cut = FALSE
             /\ decodeRes = NoResult

\* the caller encodes the next string and appends the record to the buffer
EncodeNext == /\ decodeRes = NoResult
              /\ ~cut
              /\ encIdx < Len(strings)
              /\ encIdx' = encIdx + 1
              /\ wire' = wire \o encode_string(strings[encIdx + 1])
              /\ UNCHANGED <<strings, cut, decodeRes>>
              /\ UNCHANGED <<shimVars, stateVars, inputVars, lifeVars, respVars>>

\* the buffer reaches the decoder cut short: only its first n bytes arrive
Truncate == /\ decodeRes = NoResult
            /\ ~cut
            /\ encIdx = Len(strings)
            /\ \E n \in 0 .. (Len(wire) - 1) :
                   wire' = SubSeq(wire, 1, n)
            /\ cut' = TRUE
            /\ UNCHANGED <<strings, encIdx, decodeRes>>
            /\ UNCHANGED <<shimVars, stateVars, inputVars, lifeVars, respVars>>

\* decode_string(&wire)
DecodeString == /\ decodeRes = NoResult
                /\ encIdx = Len(strings)
                /\ decodeRes' = decode_string(wire)
                /\ UNCHANGED <<strings, encIdx, wire, cut>>
                /\ UNCHANGED <<shimVars, stateVars, inputVars, lifeVars, respVars>>

NextCodec == EncodeNext \/ Truncate \/ DecodeString

-----------------------------------------------------------------------------
(* Entry point shim: backend.rs *)

MaxCalls == 2        \* entry point calls per run
MaxRequests == 2     \* requests per execute batch

\* Failure texts a hook may return (err.to_string(), as bytes): "", "e",
\* "bad" and one with an interior zero byte, "b\0d".
Messages == { <<>>, <<101>>, <<98, 97, 100>>, <<98, 0, 100>> }

\* Result<(), Error> of a hook
HookOutcomes == { [ok |-> TRUE] } \cup { [ok |-> FALSE, msg |-> m] : m \in Messages }

\* native request handles, and the arrays the host passes to execute
RequestHandles == { 11, 12 }
RECURSIVE HandleSeqs(_)
HandleSeqs(n) == IF n = 0 THEN { <<>> }
                 ELSE HandleSeqs(n - 1) \cup
                      { Append(q, h) : q \in HandleSeqs(n - 1), h \in RequestHandles }

\* codes the host may report for a failed instance-to-model lookup
HostCodes == { "UNKNOWN", "INVALID_ARG" }

\* CString::new(bytes): an interior zero byte is an error
CString_new(bytes) ==
    IF \E k \in 1 .. Len(bytes) : bytes[k] = 0
    THEN [ok |-> FALSE]
    ELSE [ok |-> TRUE, str |-> bytes]

\* TRITONSERVER_ErrorNew(code, msg): the host allocates an error object
TRITONSERVER_ErrorNew(code, msg) ==
    [code |-> code, msg |-> msg, by |-> "shim", freed |-> FALSE]

\* macro call_checked!($res), with errs the error objects allocated so far
call_checked(res, errs) ==
    IF ~res.ok
    THEN LET err == CString_new(res.msg) IN
         IF ~err.ok
         THEN \* .expect("CString::new failed")
              [status |-> "panic", ret |-> NULL, errors |-> errs]
         ELSE [status |-> "returned", ret |-> Len(errs) + 1,
               errors |-> Append(errs, TRITONSERVER_ErrorNew("INTERNAL", err.str))]
    ELSE [status |-> "returned", ret |-> NULL, errors |-> errs]

\* the request slice taken one element short
RequestWrappersShort(reqs) == [k \in 1 .. (Len(reqs) - 1) |-> [ptr |-> reqs[k]]]

\* requests.iter().map(|req| Request::from_ptr(*req)).collect()
RequestWrappers(reqs) == [k \in 1 .. Len(reqs) |-> [ptr |-> reqs[k]]]

IdleShim == /\ errors = <<>>
            /\ hookLog = <<>>
            /\ shimRet = NoResult
            /\ lastArgs = <<>>

InitShim == IdleShim

ShimAlive == /\ shimRet.status # "panic"
             /\ Len(hookLog) < MaxCalls
             /\ Len(errors) < MaxCalls

\* What an entry point does once it invokes its hook: the hook runs with the
\* wrappers built for it and call_checked! translates its outcome.
Dispatch(entry, hook, wrappers, outcome) ==
    LET r == call_checked(outcome, errors) IN
    [hookLog |-> Append(hookLog, [hook |-> hook, requests |-> wrappers]),
     errors |-> r.errors,
     shimRet |-> [status |-> r.status, entry |-> entry, hookRan |-> TRUE,
                  outcome |-> outcome, ret |-> r.ret,
                  created |-> Len(r.errors) - Len(errors)]]

TRITONBACKEND_Initialize ==
    \E o \in HookOutcomes :
        LET n == Dispatch("TRITONBACKEND_Initialize", "initialize", <<>>, o) IN
        /\ ShimAlive
        /\ hookLog' = n.hookLog
        /\ errors' = n.errors
        /\ shimRet' = n.shimRet
        /\ lastArgs' = <<>>
        /\ UNCHANGED <<codecVars, stateVars, inputVars, lifeVars, respVars>>

TRITONBACKEND_Finalize ==
    \E o \in HookOutcomes :
        LET n == Dispatch("TRITONBACKEND_Finalize", "finalize", <<>>, o) IN
        /\ ShimAlive
        /\ hookLog' = n.hookLog
        /\ errors' = n.errors
        /\ shimRet' = n.shimRet
        /\ lastArgs' = <<>>
        /\ UNCHANGED <<codecVars, stateVars, inputVars, lifeVars, respVars>>

TRITONBACKEND_ModelInitialize ==
    \E o \in HookOutcomes :
        LET n == Dispatch("TRITONBACKEND_ModelInitialize", "model_initialize",
                          <<>>, o) IN
        /\ ShimAlive
        /\ hookLog' = n.hookLog
        /\ errors' = n.errors
        /\ shimRet' = n.shimRet
        /\ lastArgs' = <<>>
        /\ UNCHANGED <<codecVars, stateVars, inputVars, lifeVars, respVars>>

TRITONBACKEND_ModelFinalize ==
    \E o \in HookOutcomes :
        LET n == Dispatch("TRITONBACKEND_ModelFinalize", "model_finalize",
                          <<>>, o) IN
        /\ ShimAlive
        /\ hookLog' = n.hookLog
        /\ errors' = n.errors
        /\ shimRet' = n.shimRet
        /\ lastArgs' = <<>>
        /\ UNCHANGED <<codecVars, stateVars, inputVars, lifeVars, respVars>>

TRITONBACKEND_ModelInstanceInitialize ==
    \E o \in HookOutcomes :
        LET n == Dispatch("TRITONBACKEND_ModelInstanceInitialize",
                          "model_instance_initialize", <<>>, o) IN
        /\ ShimAlive
        /\ hookLog' = n.hookLog
        /\ errors' = n.errors
        /\ shimRet' = n.shimRet
        /\ lastArgs' = <<>>
        /\ UNCHANGED <<codecVars, stateVars, inputVars, lifeVars, respVars>>

TRITONBACKEND_ModelInstanceFinalize ==
    \E o \in HookOutcomes :
        LET n == Dispatch("TRITONBACKEND_ModelInstanceFinalize",
                          "model_instance_finalize", <<>>, o) IN
        /\ ShimAlive
        /\ hookLog' = n.hookLog
        /\ errors' = n.errors
        /\ shimRet' = n.shimRet
        /\ lastArgs' = <<>>
        /\ UNCHANGED <<codecVars, stateVars, inputVars, lifeVars, respVars>>

\* TRITONBACKEND_ModelInstanceModel(instance, &mut model): the host's lookup
\* of the owning model.  It succeeds (lookup = "ok") or allocates an error
\* object of its own with the code lookup and returns its handle.
TRITONBACKEND_ModelInstanceModel(lookup, errs) ==
    IF lookup = "ok"
    THEN [err |-> NULL, errors |-> errs]
    ELSE [err |-> Len(errs) + 1,
          errors |-> Append(errs, [code |-> lookup, msg |-> <<>>,
                                   by |-> "host", freed |-> FALSE])]

\* the execute entry point going on to the hook although the lookup failed
execute_ignoring_lookup(found, reqs, o) ==
    LET r == call_checked(o, found.errors) IN
    [hookLog |-> Append(hookLog, [hook |-> "model_instance_execute",
                                  requests |-> RequestWrappers(reqs)]),
     errors |-> r.errors,
     shimRet |-> [status |-> r.status,
                  entry |-> "TRITONBACKEND_ModelInstanceExecute",
                  hookRan |-> TRUE, outcome |-> o, ret |-> r.ret,
                  created |-> Len(r.errors) - Len(found.errors),
                  lookupErr |-> found.err]]

\* The body of the execute entry point after the lookup returned found:
\* if !err.is_null() { return err; }, else the wrappers are built and the
\* hook is invoked.
execute_after_lookup(found, reqs, o) ==
    IF found.err # NULL
    THEN [hookLog |-> hookLog,
          errors |-> found.errors,
          shimRet |-> [status |-> "returned",
                       entry |-> "TRITONBACKEND_ModelInstanceExecute",
                       hookRan |-> FALSE, outcome |-> o,
                       ret |-> found.err, created |-> 0,
                       lookupErr |-> found.err]]
    ELSE LET n == Dispatch("TRITONBACKEND_ModelInstanceExecute",
                           "model_instance_execute", RequestWrappers(reqs), o)
         IN [hookLog |-> n.hookLog,
             errors |-> n.errors,
             shimRet |-> [status |-> n.shimRet.status,
                          entry |-> n.shimRet.entry,
                          hookRan |-> TRUE, outcome |-> o,
                          ret |-> n.shimRet.ret,
                          created |-> n.shimRet.created,
                          lookupErr |-> NULL]]

TRITONBACKEND_ModelInstanceExecute ==
    \E reqs \in HandleSeqs(MaxRequests), lookup \in HostCodes \cup { "ok" },
       o \in HookOutcomes :
        LET found == TRITONBACKEND_ModelInstanceModel(lookup, errors)
            n == execute_after_lookup(found, reqs, o)
        IN
        /\ ShimAlive
        /\ hookLog' = n.hookLog
        /\ errors' = n.errors
        /\ shimRet' = n.shimRet
        /\ lastArgs' = reqs
        /\ UNCHANGED <<codecVars, stateVars, inputVars, lifeVars, respVars>>

NextShim == \/ TRITONBACKEND_Initialize
            \/ TRITONBACKEND_Finalize
            \/ TRITONBACKEND_ModelInitialize
            \/ TRITONBACKEND_ModelFinalize
            \/ TRITONBACKEND_ModelInstanceInitialize
            \/ TRITONBACKEND_ModelInstanceFinalize
            \/ TRITONBACKEND_ModelInstanceExecute

-----------------------------------------------------------------------------
(* Native error translation: lib.rs *)

\* handles of the error objects a failing native call may return
ErrorHandles == { 21, 22 }
NativeResults == { NULL } \cup ErrorHandles

\* TRITONSERVER_ErrorCode(err): the code the host reports for a handle
\* (21: TRITONSERVER_ERROR_NOT_FOUND, 22: TRITONSERVER_ERROR_INVALID_ARG)
TRITONSERVER_ErrorCode(err) == IF err = 21 THEN 2 ELSE 3

\* format!("TRITONBACKEND_ModelInstanceModel returned error code {}", code)
format_code(code) ==
    IF code = 2 THEN "TRITONBACKEND_ModelInstanceModel returned error code 2"
    ELSE IF code = 3 THEN "TRITONBACKEND_ModelInstanceModel returned error code 3"
    ELSE "TRITONBACKEND_ModelInstanceModel returned error code ?"

\* err.to_string() as bytes, for the failure texts of the adapter
ErrorCodePrefix ==
    << 84, 82, 73, 84, 79, 78, 66, 65, 67, 75, 69, 78, 68, 95, 77, 111, 100,
    101, 108, 73, 110, 115, 116, 97, 110, 99, 101, 77, 111, 100, 101, 108,
    32, 114, 101, 116, 117, 114, 110, 101, 100, 32, 101, 114, 114, 111, 114,
    32, 99, 111, 100, 101, 32 >>
as_bytes(msg) ==
    IF msg = "TRITONBACKEND_ModelInstanceModel returned error code 2"
    THEN ErrorCodePrefix \o << 50 >>
    ELSE IF msg = "TRITONBACKEND_ModelInstanceModel returned error code 3"
    THEN ErrorCodePrefix \o << 51 >>
    ELSE IF msg = "Model state type mismatch"
    THEN << 77, 111, 100, 101, 108, 32, 115, 116, 97, 116, 101, 32, 116,
         121, 112, 101, 32, 109, 105, 115, 109, 97, 116, 99, 104 >>
    ELSE << 63 >>

\* check_err with the code left out of the message
check_err_without_code(err) ==
    IF err # NULL
    THEN [status |-> "Err",
          msg |-> "TRITONBACKEND_ModelInstanceModel returned error code "]
    ELSE [status |-> "Ok"]

\* pub(crate) fn check_err(err) -> Result<(), Error>
check_err(err) ==
    IF err # NULL
    THEN [status |-> "Err", msg |-> format_code(TRITONSERVER_ErrorCode(err))]
    ELSE [status |-> "Ok"]

-----------------------------------------------------------------------------
(* Model state attachment: model.rs *)

MaxObjects == 2      \* state objects boxed per run
MaxHeld == 1         \* boxes the caller holds at a time
MaxReleases == 2     \* releases of one object through boxes the caller drops

\* The state types D the plugin uses, and their values.
Types == { "u64", "String" }
Values == { 1, 2 }

\* What the native calls of a Model operation return (NULL or an error
\* handle): get = TRITONBACKEND_ModelState, clear =
\* TRITONBACKEND_ModelSetState(null) in drop_data, set =
\* TRITONBACKEND_ModelSetState(ptr) in set_data.
Faults == [get : NativeResults, clear : NativeResults, set : NativeResults]

\* the same for an operation that makes only the calls named in made
FaultsOf(made) ==
    { f \in Faults : \A c \in { "get", "clear", "set" } \ made : f[c] = NULL }

\* TRITONBACKEND_ModelSetState(model, p) on slot s: a failing call stores nothing
ModelSetState(s, p, fails) == IF fails THEN s ELSE p

\* (*data).type_id() with data: &D.  The receiver's static type is D, so the
\* call resolves to <D as Any>::type_id and yields TypeId::of::<D>(), whatever
\* object the pointer addr refers to.
deref_type_id(D, addr) == D

\* one native call of a Model operation and the handle it returned
NativeCall(fn, err) == [fn |-> fn, err |-> err]

\* pub fn drop_data(&self) -> Result<Option<Box<dyn Any>>, Error>
\* The pointer, which set_data made from a Box<D>, is rebuilt as a
\* Box<Box<dyn Any>>; the result of the clearing setter call is not looked at.
drop_data(s, f) ==
    LET read == check_err(f.get)
        calls == << NativeCall("TRITONBACKEND_ModelState", f.get) >>
    IN
    IF read.status = "Err"
    THEN [status |-> "Err", msg |-> read.msg, slot |-> s, calls |-> calls]
    ELSE IF s # NULL
    THEN [status |-> "Ok", some |-> TRUE,
          box |-> [addr |-> s, type |-> "Box<dyn Any>"],
          slot |-> ModelSetState(s, NULL, f.clear # NULL),
          calls |-> Append(calls, NativeCall("TRITONBACKEND_ModelSetState",
                                             f.clear))]
    ELSE [status |-> "Ok", some |-> FALSE, slot |-> s, calls |-> calls]

\* data with the null test of the state pointer inverted
data_null_test_inverted(D, s, f) ==
    LET read == check_err(f.get)
        calls == << NativeCall("TRITONBACKEND_ModelState", f.get) >>
    IN
    IF read.status = "Err"
    THEN [status |-> "Err", msg |-> read.msg, calls |-> calls]
    ELSE IF s # NULL
    THEN [status |-> "Ok", some |-> FALSE, calls |-> calls]
    ELSE [status |-> "Ok", some |-> TRUE, ref |-> [addr |-> s, type |-> D],
          calls |-> calls]

\* pub fn data<D>(&self) -> Result<Option<&D>, Error>
data(D, s, f) ==
    LET read == check_err(f.get)
        calls == << NativeCall("TRITONBACKEND_ModelState", f.get) >>
    IN
    IF read.status = "Err"
    THEN [status |-> "Err", msg |-> read.msg, calls |-> calls]
    ELSE IF s = NULL
    THEN [status |-> "Ok", some |-> FALSE, calls |-> calls]
    ELSE IF D = deref_type_id(D, s)
         THEN [status |-> "Ok", some |-> TRUE, ref |-> [addr |-> s, type |-> D],
               calls |-> calls]
         ELSE [status |-> "Err", msg |-> "Model state type mismatch",
               calls |-> calls]

\* Dropping a box whose type is not the type the object was boxed with is
\* undefined behaviour: the object's own destructor does not run and its
\* memory is freed with another layout.  The build either dies there
\* ("crash") or goes on with the object released wrongly ("corrupt").
UBOutcomes == { "crash", "corrupt" }

\* drop(box) on heap h
drop_box(h, box, ub) ==
    IF box.type = h[box.addr].type
    THEN [h EXCEPT ![box.addr].status = "released",
                   ![box.addr].releases = @ + 1]
    ELSE IF ub = "crash" THEN h
    ELSE [h EXCEPT ![box.addr].status = "misreleased",
                   ![box.addr].releases = @ + 1]

drop_crashes(h, box, ub) == box.type # h[box.addr].type /\ ub = "crash"

IdleState == /\ heap = <<>>
             /\ slot = NULL
             /\ held = <<>>
             /\ crashed = FALSE
             /\ lastSet = NoResult
             /\ lastOp = NoResult

InitState == IdleState

\* pub fn set_data<D>(&self, data: D) -> Result<(), Error>
\* on heap h and slot s, with the new object boxed at the next free address
set_data(h, s, D, v, f, ub) ==
    LET d == drop_data(s, f)
        new == Len(h) + 1
    IN
    IF d.status = "Err"
    THEN \* self.drop_data()? returns early; data is dropped unboxed
         [status |-> "Err", msg |-> d.msg, heap |-> h, slot |-> s,
          crashed |-> FALSE, calls |-> d.calls]
    ELSE IF d.some /\ drop_crashes(h, d.box, ub)
    THEN \* the temporary Option<Box<dyn Any>> is dropped
         [status |-> "crash", msg |-> "", heap |-> h, slot |-> d.slot,
          crashed |-> TRUE, calls |-> d.calls]
    ELSE LET h1 == IF d.some THEN drop_box(h, d.box, ub) ELSE h
             \* Box::into_raw(Box::new(data))
             h2 == Append(h1, [type |-> D, value |-> v,
                               status |-> "live", releases |-> 0])
             set == check_err(f.set)
         IN [status |-> set.status,
             msg |-> IF set.status = "Err" THEN set.msg ELSE "",
             heap |-> h2,
             slot |-> ModelSetState(d.slot, new, f.set # NULL),
             crashed |-> FALSE,
             calls |-> Append(d.calls,
                              NativeCall("TRITONBACKEND_ModelSetState", f.set))]

\* model.set_data(v) called by the plugin
SetData ==
    \E D \in Types, v \in Values, f \in Faults, ub \in UBOutcomes :
        LET r == set_data(heap, slot, D, v, f, ub) IN
        /\ ~crashed
        /\ Len(heap) < MaxObjects
        /\ heap' = r.heap
        /\ slot' = r.slot
        /\ crashed' = r.crashed
        /\ lastSet' = IF r.status = "Ok"
                      THEN [status |-> "set", type |-> D, value |-> v,
                            addr |-> Len(heap) + 1]
                      ELSE NoResult
        /\ lastOp' = [status |-> r.status, op |-> "set_data", msg |-> r.msg,
                      prev |-> slot, calls |-> r.calls, new |-> Len(heap) + 1]
        /\ UNCHANGED held
        /\ UNCHANGED <<codecVars, shimVars, inputVars, lifeVars, respVars>>

\* model.drop_data() called by the plugin, which keeps the returned box
DropData ==
    \E f \in FaultsOf({ "get", "clear" }) :
        LET d == drop_data(slot, f) IN
        /\ ~crashed
        /\ Len(held) < MaxHeld
        /\ slot' = d.slot
        /\ held' = IF d.status = "Ok" /\ d.some THEN Append(held, d.box) ELSE held
        /\ lastOp' = [status |-> d.status, op |-> "drop_data", res |-> d,
                      prev |-> slot, attached |-> lastSet, calls |-> d.calls,
                      readFailed |-> (f.get # NULL)]
        /\ lastSet' = IF lastSet.status = "set" /\ d.status = "Ok" /\ d.some
                      THEN [status |-> "dropped"]
                      ELSE NoResult
        /\ UNCHANGED <<heap, crashed>>
        /\ UNCHANGED <<codecVars, shimVars, inputVars, lifeVars, respVars>>

\* model.data::<D>() called by the plugin
Data ==
    \E D \in Types, f \in FaultsOf({ "get" }) :
        LET r == data(D, slot, f) IN
        /\ ~crashed
        /\ lastOp' = [status |-> r.status, op |-> "data", D |-> D, res |-> r,
                      prev |-> slot, attached |-> lastSet, calls |-> r.calls,
                      readFailed |-> (f.get # NULL)]
        /\ UNCHANGED <<heap, slot, held, crashed, lastSet>>
        /\ UNCHANGED <<codecVars, shimVars, inputVars, lifeVars, respVars>>

\* the plugin drops the oldest box it got from drop_data
DropHeld ==
    \E ub \in UBOutcomes :
        /\ ~crashed
        /\ held # <<>>
        /\ heap[Head(held).addr].releases < MaxReleases
        /\ held' = Tail(held)
        /\ crashed' = drop_crashes(heap, Head(held), ub)
        /\ heap' = drop_box(heap, Head(held), ub)
        /\ lastOp' = [status |-> "Ok", op |-> "drop", box |-> Head(held)]
        /\ UNCHANGED <<slot, lastSet>>
        /\ UNCHANGED <<codecVars, shimVars, inputVars, lifeVars, respVars>>

NextState == SetData \/ DropData \/ Data \/ DropHeld

-----------------------------------------------------------------------------
(* Input buffer access: request.rs *)

MaxRegions == 3      \* buffer regions per input

MemoryKinds == { "CPU", "CPU_PINNED", "GPU" }
RegionBytes == { <<>>, <<7>>, <<8, 9>> }
Region == [bytes : RegionBytes, mem : MemoryKinds]

RECURSIVE RegionSeqs(_)
RegionSeqs(n) == IF n = 0 THEN { <<>> }
                 ELSE RegionSeqs(n - 1) \cup
                      { Append(q, r) : q \in RegionSeqs(n - 1), r \in Region }

\* region k (0-based) of the native input lives at address RegionAddr(k);
\* a Vec allocated by the adapter lives at VecAddr
RegionAddr(k) == 100 + k
VecAddr == 200

\* raw_buffer without the match on memory_type
raw_buffer_any_memory(regions, buffer_index, err) ==
    IF check_err(err).status = "Err" THEN check_err(err)
    ELSE [status |-> "Ok", ptr |-> RegionAddr(buffer_index),
          bytes |-> regions[buffer_index + 1].bytes]

\* raw_buffer passing 0 instead of buffer_index to the native call
raw_buffer_first_region(regions, buffer_index, err) ==
    IF check_err(err).status = "Err" THEN check_err(err)
    ELSE LET r == regions[1] IN
         IF r.mem \in { "CPU", "CPU_PINNED" }
         THEN [status |-> "Ok", ptr |-> RegionAddr(0), bytes |-> r.bytes]
         ELSE [status |-> "Err", msg |-> "GPU memory is unsupported"]

\* fn raw_buffer(&self, buffer_index: u32) -> Result<&[u8], Error>
\* err: what the native TRITONBACKEND_InputBuffer call returns
raw_buffer(regions, buffer_index, err) ==
    IF check_err(err).status = "Err" THEN check_err(err)
    ELSE LET r == regions[buffer_index + 1] IN
         IF r.mem \in { "CPU", "CPU_PINNED" }
         THEN [status |-> "Ok", ptr |-> RegionAddr(buffer_index), bytes |-> r.bytes]
         ELSE [status |-> "Err", msg |-> "GPU memory is unsupported"]

\* What the native calls of one buffer() return: call number fault.at
\* (0: none) returns the error handle fault.err, the others return null.
BufferFaults(n) == { [at |-> 0, err |-> NULL] } \cup
                   [at : 1 .. n, err : ErrorHandles]
NativeResult(fault, k) == IF fault.at = k THEN fault.err ELSE NULL

\* for buf_idx in 0..properties.buffer_count { ... } from buf_idx on, with
\* retval and the native calls made so far
RECURSIVE copy_loop(_, _, _, _, _)
copy_loop(regions, buf_idx, retval, calls, fault) ==
    IF buf_idx >= Len(regions)
    THEN [res |-> [status |-> "Ok", kind |-> "Owned", ptr |-> VecAddr,
                   bytes |-> retval],
          calls |-> calls]
    ELSE LET err == NativeResult(fault, Len(calls) + 1)
             calls1 == Append(calls, [fn |-> "InputBuffer", index |-> buf_idx,
                                      failed |-> (err # NULL), err |-> err])
             b == raw_buffer(regions, buf_idx, err)
         IN IF b.status = "Err"
            THEN [res |-> b, calls |-> calls1]
            ELSE copy_loop(regions, buf_idx + 1, retval \o b.bytes, calls1, fault)

\* pub fn buffer(&self) -> Result<Cow<[u8]>, Error>
buffer(regions, fault) ==
    LET err0 == NativeResult(fault, 1)
        \* self.properties()?
        properties == check_err(err0)
        calls0 == << [fn |-> "InputProperties", index |-> 0,
                      failed |-> (err0 # NULL), err |-> err0] >>
    IN
    IF properties.status = "Err"
    THEN [res |-> properties, calls |-> calls0]
    ELSE IF Len(regions) = 1
    THEN LET err1 == NativeResult(fault, 2)
             calls1 == Append(calls0, [fn |-> "InputBuffer", index |-> 0,
                                       failed |-> (err1 # NULL), err |-> err1])
             b == raw_buffer(regions, 0, err1)
         IN IF b.status = "Err"
            THEN [res |-> b, calls |-> calls1]
            ELSE [res |-> [status |-> "Ok", kind |-> "Borrowed", ptr |-> b.ptr,
                           bytes |-> b.bytes],
                  calls |-> calls1]
    ELSE copy_loop(regions, 0, <<>>, calls0, fault)

IdleInput == /\ input = <<>>
             /\ nativeCalls = <<>>
             /\ bufRes = NoResult

InitInput == /\ input \in RegionSeqs(MaxRegions)
             /\ nativeCalls = <<>>
             /\ bufRes = NoResult

\* input.buffer() called by the plugin
Buffer ==
    \E fault \in BufferFaults(Len(input) + 1) :
        LET r == buffer(input, fault) IN
        /\ bufRes' = r.res
        /\ nativeCalls' = r.calls
        /\ UNCHANGED input
        /\ UNCHANGED <<codecVars, shimVars, stateVars, lifeVars, respVars>>

NextInput == Buffer

-----------------------------------------------------------------------------
(* Model lifecycle: backend.rs with model.rs *)

MaxExecutes == 1     \* execute calls per model instance

\* the instances of the model, each executed on a thread of its own
Instances == { 1, 2 }

IdleThread == [pc |-> "idle", runs |-> 0, res |-> NoResult]

\* the request arrays the host passes to instance i: its own request
Batches(i) == { << 10 + i >> }

\* the model_finalize hooks: the trait's default, and a plugin's override
\* that detaches the state with drop_data and drops what it gets
FinalizeHooks == { "default", "drop_data" }

\* TRITONBACKEND_ModelState reading the state pointer and clearing the slot
TRITONBACKEND_ModelState_taking(s, err) ==
    [ptr |-> IF err = NULL THEN s ELSE NULL, slot |-> NULL]

\* TRITONBACKEND_ModelState(self.ptr, &mut state_ptr) on slot s, returning
\* err: the pointer read, and the slot afterwards
TRITONBACKEND_ModelState(s, err) ==
    [ptr |-> IF err = NULL THEN s ELSE NULL, slot |-> s]

\* Result<(), Error> of a hook that propagates the result r of a Model
\* operation with the ? operator
HookResult(r) ==
    IF r.status = "Err" THEN [ok |-> FALSE, msg |-> as_bytes(r.msg)]
    ELSE [ok |-> TRUE]

\* fn model_finalize(model) of the Backend trait: the default body, or the
\* override that calls model.drop_data()? and drops the returned box
model_finalize(hook, h, s, f, ub) ==
    IF hook = "default"
    THEN [status |-> "Ok", heap |-> h, slot |-> s, crashed |-> FALSE,
          calls |-> <<>>]
    ELSE LET d == drop_data(s, f) IN
         IF d.status = "Err"
         THEN [status |-> "Err", msg |-> d.msg, heap |-> h, slot |-> s,
               crashed |-> FALSE, calls |-> d.calls]
         ELSE IF ~d.some
         THEN [status |-> "Ok", heap |-> h, slot |-> d.slot,
               crashed |-> FALSE, calls |-> d.calls]
         ELSE IF drop_crashes(h, d.box, ub)
         THEN [status |-> "crash", heap |-> h, slot |-> d.slot,
               crashed |-> TRUE, calls |-> d.calls]
         ELSE [status |-> "Ok", heap |-> drop_box(h, d.box, ub),
               slot |-> d.slot, crashed |-> FALSE, calls |-> d.calls]

IdleLife == /\ phase = "loaded"
            /\ threads = [i \in Instances |-> IdleThread]

InitLife == IdleLife

\* TRITONBACKEND_ModelInitialize of a plugin whose model_initialize hook
\* attaches the model's state: model.set_data(v)?; Ok(())
LifecycleModelInitialize ==
    \E D \in Types, v \in Values, f \in Faults, ub \in UBOutcomes :
        LET r == set_data(heap, slot, D, v, f, ub)
            n == Dispatch("TRITONBACKEND_ModelInitialize", "model_initialize",
                          <<>>, HookResult(r))
        IN
        /\ ~crashed
        /\ phase = "loaded"
        /\ heap' = r.heap
        /\ slot' = r.slot
        /\ crashed' = r.crashed
        /\ lastSet' = IF r.status = "Ok"
                      THEN [status |-> "set", type |-> D, value |-> v,
                            addr |-> Len(heap) + 1]
                      ELSE NoResult
        /\ lastOp' = [status |-> r.status, op |-> "set_data", msg |-> r.msg,
                      prev |-> slot, calls |-> r.calls, new |-> Len(heap) + 1]
        /\ phase' = IF r.status = "Ok" THEN "initialized" ELSE "failed"
        /\ IF r.crashed
           THEN UNCHANGED <<errors, hookLog, shimRet>>
           ELSE /\ errors' = n.errors
                /\ hookLog' = n.hookLog
                /\ shimRet' = n.shimRet
        /\ lastArgs' = <<>>
        /\ UNCHANGED <<held, threads>>
        /\ UNCHANGED <<codecVars, inputVars, respVars>>

\* TRITONBACKEND_ModelInstanceExecute on instance i, up to the native read
\* of the state pointer that the hook's model.data::<D>() makes; a failed
\* lookup of the model returns at once
LifecycleExecuteRead(i) ==
    \E reqs \in Batches(i), lookup \in HostCodes \cup { "ok" },
       D \in Types, err \in NativeResults :
        LET found == TRITONBACKEND_ModelInstanceModel(lookup, errors)
            n == execute_after_lookup(found, reqs, [ok |-> TRUE])
            read == TRITONBACKEND_ModelState(slot, err)
        IN
        /\ ~crashed
        /\ phase = "initialized"
        /\ threads[i].pc = "idle"
        /\ threads[i].runs < MaxExecutes
        /\ errors' = found.errors
        /\ lastArgs' = reqs
        /\ IF found.err # NULL
           THEN /\ hookLog' = n.hookLog
                /\ shimRet' = n.shimRet
                /\ threads' = [threads EXCEPT ![i] =
                                  [pc |-> "idle", runs |-> @.runs + 1,
                                   res |-> NoResult]]
                /\ UNCHANGED slot
           ELSE /\ threads' = [threads EXCEPT ![i] =
                                  [pc |-> "read", runs |-> @.runs, res |-> NoResult,
                                   reqs |-> reqs, D |-> D, err |-> err,
                                   ptr |-> read.ptr]]
                /\ slot' = read.slot
                /\ UNCHANGED <<hookLog, shimRet>>
        /\ UNCHANGED <<heap, held, crashed, lastSet, lastOp, phase>>
        /\ UNCHANGED <<codecVars, inputVars, respVars>>

\* the rest of that call: data::<D>() tests the pointer it read and returns,
\* the hook returns what it got (model.data::<D>()?; Ok(())) and
\* call_checked! translates it
LifecycleExecuteReturn(i) ==
    LET t == threads[i]
        r == data(t.D, t.ptr, [get |-> t.err, clear |-> NULL, set |-> NULL])
        n == execute_after_lookup([err |-> NULL, errors |-> errors], t.reqs,
                                  HookResult(r))
    IN
    /\ ~crashed
    /\ phase = "initialized"
    /\ t.pc = "read"
    /\ threads' = [threads EXCEPT ![i] =
                      [pc |-> "idle", runs |-> t.runs + 1, res |-> r,
                       D |-> t.D, err |-> t.err,
                       peers |-> { j \in Instances : threads[j].pc = "read" }
                                    \ { i }]]
    /\ errors' = n.errors
    /\ hookLog' = n.hookLog
    /\ shimRet' = n.shimRet
    /\ UNCHANGED <<lastArgs, heap, slot, held, crashed, lastSet, lastOp, phase>>
    /\ UNCHANGED <<codecVars, inputVars, respVars>>

\* TRITONBACKEND_ModelFinalize, called by the host once no execute is running
LifecycleModelFinalize ==
    \E hook \in FinalizeHooks, f \in FaultsOf({ "get", "clear" }),
       ub \in UBOutcomes :
        LET r == model_finalize(hook, heap, slot, f, ub)
            n == Dispatch("TRITONBACKEND_ModelFinalize", "model_finalize",
                          <<>>, HookResult(r))
        IN
        /\ ~crashed
        /\ phase = "initialized"
        /\ \A i \in Instances : threads[i].pc = "idle"
        /\ heap' = r.heap
        /\ slot' = r.slot
        /\ crashed' = r.crashed
        /\ lastOp' = [status |-> r.status, op |-> "model_finalize",
                      hook |-> hook, prev |-> slot, calls |-> r.calls]
        /\ phase' = IF r.crashed THEN phase ELSE "finalized"
        /\ IF r.crashed
           THEN UNCHANGED <<errors, hookLog, shimRet>>
           ELSE /\ errors' = n.errors
                /\ hookLog' = n.hookLog
                /\ shimRet' = n.shimRet
        /\ lastArgs' = <<>>
        /\ UNCHANGED <<held, lastSet, threads>>
        /\ UNCHANGED <<codecVars, inputVars, respVars>>

NextLife == \/ LifecycleModelInitialize
            \/ \E i \in Instances : LifecycleExecuteRead(i)
            \/ \E i \in Instances : LifecycleExecuteReturn(i)
            \/ LifecycleModelFinalize

-----------------------------------------------------------------------------
(* Responses: response.rs *)

MaxResponses == 2    \* Response objects created per run

\* pub fn new(request: &Request) -> Result<Self, Error>
\* err: what the native TRITONBACKEND_ResponseNew returns.  sends and deletes
\* count the native terminal calls on the handle; alive says that the Rust
\* object still exists.
Response_new(request, err) ==
    IF check_err(err).status = "Err"
    THEN check_err(err)
    ELSE [status |-> "Ok",
          resp |-> [request |-> request, sent |-> FALSE, alive |-> TRUE,
                    sends |-> 0, deletes |-> 0]]

\* drop deleting the native response whether or not it was sent
Response_drop_unconditional(r, err) ==
    [resp |-> [r EXCEPT !.alive = FALSE, !.deletes = @ + 1],
     res |-> [status |-> "unit"],
     logged |-> check_err(err)]

\* impl Drop for Response: fn drop(&mut self)
\* err: what the native TRITONBACKEND_ResponseDelete returns, if it is called;
\* the result of check_err is only logged
Response_drop(r, err) ==
    IF ~r.sent
    THEN [resp |-> [r EXCEPT !.alive = FALSE, !.deletes = @ + 1],
          res |-> [status |-> "unit"],
          logged |-> check_err(err)]
    ELSE [resp |-> [r EXCEPT !.alive = FALSE],
          res |-> [status |-> "unit"],
          logged |-> [status |-> "Ok"]]

\* pub fn send(mut self) -> Result<(), Error>
\* err: what the native TRITONBACKEND_ResponseSend returns.  self is consumed:
\* it is dropped when send returns.
Response_send(r, err) ==
    LET r1 == [r EXCEPT !.sent = TRUE]
        r2 == [r1 EXCEPT !.sends = @ + 1]
    IN [resp |-> Response_drop(r2, NULL).resp, res |-> check_err(err)]

IdleResp == /\ responses = <<>>
            /\ lastResp = NoResult

InitResp == IdleResp

\* Response::new(&request) called by the plugin
ResponseNew ==
    \E request \in RequestHandles, err \in NativeResults :
        LET r == Response_new(request, err) IN
        /\ Len(responses) < MaxResponses
        /\ responses' = IF r.status = "Ok" THEN Append(responses, r.resp)
                        ELSE responses
        /\ lastResp' = [op |-> "new", status |-> r.status, err |-> err]
        /\ UNCHANGED <<codecVars, shimVars, stateVars, inputVars, lifeVars>>

\* response.send() called by the plugin on its i-th response
ResponseSend(i) ==
    \E err \in NativeResults :
        LET r == Response_send(responses[i], err) IN
        /\ responses[i].alive
        /\ responses' = [responses EXCEPT ![i] = r.resp]
        /\ lastResp' = [op |-> "send", status |-> r.res.status, err |-> err,
                        res |-> r.res, index |-> i]
        /\ UNCHANGED <<codecVars, shimVars, stateVars, inputVars, lifeVars>>

\* the plugin's i-th response goes out of scope without having been sent
ResponseDrop(i) ==
    \E err \in NativeResults :
        LET r == Response_drop(responses[i], err) IN
        /\ responses[i].alive
        /\ responses' = [responses EXCEPT ![i] = r.resp]
        /\ lastResp' = [op |-> "drop", status |-> r.res.status, err |-> err,
                        logged |-> r.logged, index |-> i]
        /\ UNCHANGED <<codecVars, shimVars, stateVars, inputVars, lifeVars>>

NextResp == \/ ResponseNew
            \/ \E i \in 1 .. Len(responses) : ResponseSend(i)
            \/ \E i \in 1 .. Len(responses) : ResponseDrop(i)

-----------------------------------------------------------------------------
(* Specifications *)

InitCodecAll == InitCodec /\ IdleShim /\ IdleState /\ IdleInput /\ IdleLife /\ IdleResp
InitShimAll == IdleCodec /\ InitShim /\ IdleState /\ IdleInput /\ IdleLife /\ IdleResp
InitStateAll == IdleCodec /\ IdleShim /\ InitState /\ IdleInput /\ IdleLife /\ IdleResp
InitLifeAll == IdleCodec /\ IdleShim /\ IdleState /\ IdleInput /\ InitLife /\ IdleResp
InitRespAll == IdleCodec /\ IdleShim /\ IdleState /\ IdleInput /\ IdleLife /\ InitResp
InitInputAll == IdleCodec /\ IdleShim /\ IdleState /\ InitInput /\ IdleLife /\ IdleResp

SpecCodec == InitCodecAll /\ [][NextCodec]_vars
SpecShim == InitShimAll /\ [][NextShim]_vars
SpecState == InitStateAll /\ [][NextState]_vars
SpecInput == InitInputAll /\ [][NextInput]_vars
SpecLife == InitLifeAll /\ [][NextLife]_vars
SpecResp == InitRespAll /\ [][NextResp]_vars

-----------------------------------------------------------------------------
(* The byte-tensor codec: properties *)

Decoded == decodeRes.status # "none"

\* C1: decoding the concatenation of the encode_string records of a sequence
\* of UTF-8 strings returns Ok with exactly that sequence, in order.
RoundTrip ==
    (Decoded /\ ~cut) => decodeRes = [status |-> "Ok", strings |-> strings]

\* a sequence holding an empty and a multi-byte string was encoded and decoded
RoundTripWitness ==
    /\ Decoded /\ ~cut
    /\ Len(strings) = 2
    /\ strings[1] = <<>>
    /\ strings[2] = <<226, 130, 172, 97>>
    /\ decodeRes.status = "Ok"
    /\ decodeRes.strings = strings

\* The buffer is a whole number of records: every length prefix is complete
\* and the bytes it announces are there.
RECURSIVE WholeRecords(_)
WholeRecords(b) ==
    \/ b = <<>>
    \/ /\ Len(b) >= 4
       /\ LET n == b[1] + 256 * b[2] + 65536 * b[3] + 16777216 * b[4] IN
          /\ 4 + n <= Len(b)
          /\ WholeRecords(SubSeq(b, 5 + n, Len(b)))

\* C2: decode_string of a truncated buffer (fewer than 4 bytes where a length
\* prefix is expected, or a prefix announcing more bytes than remain) returns
\* a decode error; it does not abort.
TruncatedIsDecodeError ==
    (Decoded /\ ~WholeRecords(wire)) => decodeRes.status = "Err"

\* C3: encode_string(s) is the 4-byte little-endian length of s followed by
\* the bytes of s and nothing else; ["cat","dogs"] encodes to
\* 03 00 00 00 63 61 74 04 00 00 00 64 6F 67 73, which decodes to
\* ["cat","dogs"].
RECURSIVE RecordsOf(_, _)
RecordsOf(b, ss) ==
    IF ss = <<>> THEN b = <<>>
    ELSE LET s == Head(ss) IN
         /\ Len(b) >= 4 + Len(s)
         /\ \A k \in 1 .. 4 : b[k] \in 0 .. 255
         /\ b[1] + 256 * b[2] + 65536 * b[3] + 16777216 * b[4] = Len(s)
         /\ SubSeq(b, 5, 4 + Len(s)) = s
         /\ RecordsOf(SubSeq(b, 5 + Len(s), Len(b)), Tail(ss))

EncodeLayout ==
    /\ ~cut => RecordsOf(wire, SubSeq(strings, 1, encIdx))
    /\ (~cut /\ strings = Scenario /\ encIdx = 2) => wire = ScenarioBytes
    /\ (Decoded /\ wire = ScenarioBytes)
           => decodeRes = [status |-> "Ok", strings |-> Scenario]

EncodeLayoutWitness ==
    /\ strings = Scenario
    /\ wire = ScenarioBytes
    /\ decodeRes = [status |-> "Ok", strings |-> Scenario]

-----------------------------------------------------------------------------
(* The entry point shim: properties *)

HookReturned == shimRet.status # "none" /\ shimRet.hookRan

\* C4: when the hook of an entry point returns failure with message m, the
\* entry point returns a non-null error object made with the internal-error
\* code and carrying m; when the hook returns success it returns null and
\* makes no error object.
HookOutcomeTranslated ==
    HookReturned =>
        /\ shimRet.status = "returned"
        /\ IF shimRet.outcome.ok
           THEN shimRet.ret = NULL /\ shimRet.created = 0
           ELSE /\ shimRet.ret # NULL
                /\ shimRet.created = 1
                /\ errors[shimRet.ret].code = "INTERNAL"
                /\ errors[shimRet.ret].msg = shimRet.outcome.msg

ExecuteEntry == "TRITONBACKEND_ModelInstanceExecute"

\* C11: when the instance-to-model lookup of the execute entry point returns
\* an error, the entry point returns that same error handle at once: the
\* hook is not invoked, no wrapper is built, the shim allocates no error
\* object and the received one is not freed.
LookupFailureReturned ==
    [][ (shimRet'.status # "none" /\ shimRet'.entry = ExecuteEntry
           /\ shimRet'.lookupErr # NULL)
        => /\ hookLog' = hookLog
           /\ shimRet'.status = "returned"
           /\ shimRet'.ret = shimRet'.lookupErr
           /\ Len(errors') = Len(errors) + 1
           /\ \A k \in 1 .. Len(errors) : errors'[k] = errors[k]
           /\ shimRet'.ret = Len(errors')
           /\ errors'[shimRet'.ret].by = "host"
           /\ ~errors'[shimRet'.ret].freed
      ]_vars

\* an execute call with two requests whose lookup failed
LookupFailureWitness ==
    /\ shimRet.status = "returned"
    /\ shimRet.entry = ExecuteEntry
    /\ shimRet.lookupErr # NULL
    /\ shimRet.ret = shimRet.lookupErr
    /\ Len(lastArgs) = 2
    /\ errors[shimRet.ret].by = "host"
    /\ hookLog = <<>>

\* C16: whatever the text of the failure a hook returns (empty, or holding a
\* zero byte), the entry point returns normally with a native error object;
\* it neither aborts nor returns null.
FailureSurfaced ==
    (HookReturned /\ ~shimRet.outcome.ok)
        => shimRet.status = "returned" /\ shimRet.ret # NULL

\* the hook each entry point stands for
HookOf(entry) ==
    CASE entry = "TRITONBACKEND_Initialize" -> "initialize"
      [] entry = "TRITONBACKEND_Finalize" -> "finalize"
      [] entry = "TRITONBACKEND_ModelInitialize" -> "model_initialize"
      [] entry = "TRITONBACKEND_ModelFinalize" -> "model_finalize"
      [] entry = "TRITONBACKEND_ModelInstanceInitialize" -> "model_instance_initialize"
      [] entry = "TRITONBACKEND_ModelInstanceFinalize" -> "model_instance_finalize"
      [] entry = ExecuteEntry -> "model_instance_execute"

\* C17: every entry point call invokes its own hook exactly once, before it
\* returns, unless the execute lookup failed (then not at all); the execute
\* hook gets one Request wrapper per native handle of the array, the i-th
\* wrapping the i-th handle.
HookOncePerCall ==
    [][ IF shimRet'.entry = ExecuteEntry /\ shimRet'.lookupErr # NULL
        THEN hookLog' = hookLog
        ELSE hookLog' = Append(hookLog,
                 [hook |-> HookOf(shimRet'.entry),
                  requests |-> [k \in 1 .. Len(lastArgs') |->
                                    [ptr |-> lastArgs'[k]]]])
      ]_vars

\* a second call, execute, whose hook got the two requests in the host's order
HookOncePerCallWitness ==
    /\ shimRet.status = "returned"
    /\ shimRet.entry = ExecuteEntry
    /\ shimRet.lookupErr = NULL
    /\ lastArgs = <<12, 11>>
    /\ Len(hookLog) = 2
    /\ hookLog[2] = [hook |-> "model_instance_execute",
                     requests |-> << [ptr |-> 12], [ptr |-> 11] >>]

-----------------------------------------------------------------------------
(* Model state attachment: properties *)

DataCalled == lastOp.status # "none" /\ lastOp.op = "data"
DropDataCalled == lastOp.status # "none" /\ lastOp.op = "drop_data"
SetDataCalled == lastOp.status # "none" /\ lastOp.op = "set_data"

\* C5: after a successful set_data(v) with v of type D, a data<D>() with no
\* set_data or drop_data in between (whose native read of the state pointer
\* succeeds) returns a reference to the attached object, whose value is v;
\* data<D>() on a model with nothing attached returns none.
AttachedReadBack ==
    (DataCalled /\ ~lastOp.readFailed) =>
        /\ (lastOp.attached.status = "set" /\ lastOp.D = lastOp.attached.type)
               => /\ lastOp.res.status = "Ok"
                  /\ lastOp.res.some
                  /\ lastOp.res.ref.addr = lastOp.attached.addr
                  /\ lastOp.res.ref.type = heap[lastOp.res.ref.addr].type
                  /\ heap[lastOp.res.ref.addr].status = "live"
                  /\ heap[lastOp.res.ref.addr].value = lastOp.attached.value
        /\ lastOp.prev = NULL
               => lastOp.res.status = "Ok" /\ ~lastOp.res.some

\* the second state object attached to the model was read back
AttachedReadBackWitness ==
    /\ DataCalled /\ ~lastOp.readFailed
    /\ lastOp.attached.status = "set"
    /\ lastOp.attached.addr = 2
    /\ lastOp.D = lastOp.attached.type
    /\ lastOp.res.status = "Ok" /\ lastOp.res.some
    /\ heap[lastOp.res.ref.addr].value = lastOp.attached.value

\* C6: data<D>() on a model whose attached state has another type than D
\* returns the "state type mismatch" error, never a reference.
MismatchIsError ==
    (DataCalled /\ ~lastOp.readFailed /\ lastOp.prev # NULL
       /\ heap[lastOp.prev].type # lastOp.D)
        => /\ lastOp.res.status = "Err"
           /\ lastOp.res.msg = "Model state type mismatch"

\* C7: the first drop_data after a successful set_data(v) returns the stored
\* object with its original type; a second drop_data with no set_data in
\* between returns none.
DropReturnsStoredOnce ==
    (DropDataCalled /\ ~lastOp.readFailed) =>
        /\ lastOp.attached.status = "set"
               => /\ lastOp.res.status = "Ok"
                  /\ lastOp.res.some
                  /\ lastOp.res.box.addr = lastOp.attached.addr
                  /\ lastOp.res.box.type = lastOp.attached.type
        /\ lastOp.attached.status = "dropped"
               => lastOp.res.status = "Ok" /\ ~lastOp.res.some

\* C8: a set_data issued while an object is attached releases that object
\* exactly once before storing the new one; no object is ever released twice
\* or through a wrong type.
PreviousReleasedOnce ==
    /\ \A a \in 1 .. Len(heap) :
           heap[a].releases <= 1 /\ heap[a].status # "misreleased"
    /\ (SetDataCalled /\ lastOp.prev # NULL /\ lastOp.status = "Ok")
           => /\ heap[lastOp.prev].status = "released"
              /\ heap[lastOp.prev].releases = 1
              /\ slot # lastOp.prev
    /\ SetDataCalled => lastOp.status # "crash"

\* the failure text of the last Model operation
OpMsg == IF lastOp.op = "set_data" THEN lastOp.msg ELSE lastOp.res.msg

\* the native calls of the last Model operation that returned an error handle
FailedCalls == { k \in 1 .. Len(lastOp.calls) : lastOp.calls[k].err # NULL }

\* C14: when a native call made by a Model operation returns a non-null
\* error handle, the operation returns an error whose message carries the
\* code the host reports for that handle, and that call is the last native
\* call it made; when every native call returns null the operation does not
\* fail for a native reason.
NativeFailurePropagated ==
    (lastOp.status \in { "Ok", "Err" } /\ "calls" \in DOMAIN lastOp) =>
        IF FailedCalls = {}
        THEN lastOp.status = "Err" => OpMsg = "Model state type mismatch"
        ELSE /\ lastOp.status = "Err"
             /\ FailedCalls = { Len(lastOp.calls) }
             /\ OpMsg = format_code(TRITONSERVER_ErrorCode(
                            lastOp.calls[Len(lastOp.calls)].err))

\* C18: when drop_data returns a recovered object the native slot is null
\* afterwards, also when the clearing setter call reported an error; no box
\* the caller holds refers to the object the slot still points to.
DetachClearsSlot ==
    /\ (DropDataCalled /\ lastOp.res.status = "Ok" /\ lastOp.res.some)
           => slot = NULL
    /\ \A k \in 1 .. Len(held) : held[k].addr # slot

\* C19: after a set_data that returned an error the new object is not
\* leaked: it was never boxed or it is released, and the slot holds what it
\* held before the call or null.
FailedSetLeaksNothing ==
    (SetDataCalled /\ lastOp.status = "Err") =>
        /\ lastOp.new \in DOMAIN heap => heap[lastOp.new].status = "released"
        /\ slot \in { lastOp.prev, NULL }

-----------------------------------------------------------------------------
(* Input buffer access: properties *)

BufferCalled == bufRes.status # "none"
NoNativeFailure == \A k \in 1 .. Len(nativeCalls) : ~nativeCalls[k].failed
AllHostMemory == \A k \in 1 .. Len(input) : input[k].mem \in { "CPU", "CPU_PINNED" }

\* the native calls of a buffer() that reads each of n regions once, in order
ReadsInOrder(n) ==
    /\ Len(nativeCalls) = n + 1
    /\ nativeCalls[1].fn = "InputProperties"
    /\ \A k \in 1 .. n : /\ nativeCalls[k + 1].fn = "InputBuffer"
                         /\ nativeCalls[k + 1].index = k - 1

\* C9: over N >= 2 regions, all CPU or CPU-pinned, buffer() returns an owned
\* value equal to the concatenation of regions 0..N-1 in index order, each
\* read once; over 1 region it returns a borrowed view of native region 0.
BufferConcatenates ==
    (BufferCalled /\ NoNativeFailure /\ AllHostMemory) =>
        /\ Len(input) >= 2
               => /\ bufRes.status = "Ok"
                  /\ bufRes.kind = "Owned"
                  /\ bufRes.ptr \notin { RegionAddr(k) : k \in 0 .. Len(input) }
                  /\ bufRes.bytes = Flatten([k \in 1 .. Len(input) |-> input[k].bytes])
                  /\ ReadsInOrder(Len(input))
        /\ Len(input) = 1
               => /\ bufRes.status = "Ok"
                  /\ bufRes.kind = "Borrowed"
                  /\ bufRes.ptr = RegionAddr(0)
                  /\ bufRes.bytes = input[1].bytes
                  /\ ReadsInOrder(1)

\* three regions with different contents were concatenated
BufferConcatenatesWitness ==
    /\ BufferCalled /\ NoNativeFailure
    /\ input = << [bytes |-> <<8, 9>>, mem |-> "CPU"],
                  [bytes |-> <<>>, mem |-> "CPU_PINNED"],
                  [bytes |-> <<7>>, mem |-> "CPU"] >>
    /\ bufRes.status = "Ok"
    /\ bufRes.kind = "Owned"
    /\ bufRes.bytes = <<8, 9, 7>>

\* C10: if any region of the input has a memory kind other than CPU or
\* CPU-pinned, buffer() returns an error and no data (the unsupported-memory
\* error, unless a native call failed first); bytes copied from earlier
\* regions are not returned.
UnsupportedMemoryIsError ==
    (BufferCalled /\ ~AllHostMemory) =>
        /\ bufRes.status = "Err"
        /\ DOMAIN bufRes = { "status", "msg" }
        /\ NoNativeFailure => bufRes.msg = "GPU memory is unsupported"

\* a device region after a non-empty host region that was already copied
UnsupportedMemoryWitness ==
    /\ BufferCalled /\ NoNativeFailure
    /\ Len(input) = 2
    /\ input[1] = [bytes |-> <<8, 9>>, mem |-> "CPU"]
    /\ input[2].mem = "GPU"
    /\ Len(nativeCalls) = 3
    /\ bufRes = [status |-> "Err", msg |-> "GPU memory is unsupported"]

-----------------------------------------------------------------------------
(* Model lifecycle: properties *)

\* C12: when the model-finalize entry point has returned, no state object
\* is attached to the model any more and every state object attached during
\* the lifecycle has been released exactly once.
FinalizeReleasesState ==
    phase = "finalized" =>
        /\ slot = NULL
        /\ \A a \in 1 .. Len(heap) :
               heap[a].status = "released" /\ heap[a].releases = 1

\* every completed read of the attached state, through data<D>() with D the
\* attached type and a native read that succeeded, got the attached object
ReadsIntact ==
    \A i \in Instances :
        (threads[i].res.status # "none" /\ threads[i].err = NULL
           /\ lastSet.status = "set" /\ threads[i].D = lastSet.type)
            => /\ threads[i].res.status = "Ok"
               /\ threads[i].res.some
               /\ threads[i].res.ref.addr = lastSet.addr
               /\ threads[i].res.ref.type = heap[lastSet.addr].type
               /\ heap[lastSet.addr].status = "live"
               /\ heap[lastSet.addr].value = lastSet.value

\* C15: under every interleaving of the execute calls of two instances, no
\* step of an execute call writes the native state slot or a state object,
\* and each read of the attached state returns the attached value.
ConcurrentReadsIntact ==
    [][threads' # threads => (slot' = slot /\ heap' = heap /\ ReadsIntact')]_vars

\* instance 1 returned from its read while instance 2 was between its native
\* read and its return, and both got the attached object
ConcurrentReadsWitness ==
    /\ phase = "initialized"
    /\ \A i \in Instances : /\ threads[i].res.status = "Ok"
                            /\ threads[i].res.some
                            /\ threads[i].D = lastSet.type
                            /\ threads[i].res.ref.addr = lastSet.addr
    /\ threads[1].peers = { 2 }

-----------------------------------------------------------------------------
(* Responses: properties *)

\* C13: on the handle of every Response at most one native terminal call is
\* ever issued; once the Response is gone exactly one was issued: the send
\* if send was called (also when the native send failed), the delete if it
\* was not.  Dropping a Response returns no failure, also when the native
\* delete failed.
TerminatedExactlyOnce ==
    /\ \A i \in 1 .. Len(responses) :
           LET r == responses[i] IN
           /\ r.sends + r.deletes <= 1
           /\ r.alive => (r.sends = 0 /\ r.deletes = 0 /\ ~r.sent)
           /\ ~r.alive => r.sends + r.deletes = 1
           /\ r.sent <=> r.sends = 1
    /\ (lastResp.status # "none" /\ lastResp.op = "drop")
           => lastResp.status = "unit"
    /\ (lastResp.status # "none" /\ lastResp.op = "send")
           => /\ responses[lastResp.index].sends = 1
              /\ responses[lastResp.index].deletes = 0
              /\ (lastResp.status = "Err") <=> (lastResp.err # NULL)

\* one response was sent with the native send failing, another was dropped
\* unsent with the native delete failing
TerminatedExactlyOnceWitness ==
    /\ Len(responses) = 2
    /\ responses[1].sends = 1 /\ ~responses[1].alive
    /\ responses[2].deletes = 1 /\ ~responses[2].alive
    /\ lastResp.status # "none" /\ lastResp.op = "drop"
    /\ lastResp.logged.status = "Err"

=============================================================================
